---- MODULE Spec2Model ----
(***************************************************************************)
(* Model of cmd/lspschema/gen.go: the meta-model catalog (Model), the      *)
(* reference resolver (Model.Structure / Model.AnyRef / Model.ResolveRefs),*)
(* the declaration printer (pp.PrintStruct) and the strict schema-node     *)
(* decoder (Schema.UnmarshalJSON / unmarshalStrict).                       *)
(***************************************************************************)
EXTENDS Integers, Sequences, FiniteSets, TLC

\* ------------------------------------------------------------------ bounds
\* Largest number of properties in a catalog (summed over its structures).
MaxProps == 2
\* Largest number of top-level Model.Structure calls made on one catalog.
MaxCalls == 2
\* Number of nested calls after which the Go runtime's stack is taken to be
\* exhausted ("fatal error: stack overflow").  It is larger than the number of
\* structures, so only an unbounded recursion reaches it.
StackLimit == 3

\* ------------------------------------------------------------ schema nodes
\* A Schema node: Kind, the Name of a base/reference node, and the child
\* nodes of a wrapper (array: element; map: key, value; or/and/tuple: items).
Base(n) == [kind |-> "base", name |-> n, items |-> <<>>]
Ref(n) == [kind |-> "reference", name |-> n, items |-> <<>>]
Wrap(k, its) == [kind |-> k, name |-> "", items |-> its]

\* The catalog's collections, in document order.
StructureNames == <<"A", "B">>
Enumerations == <<"E">>
TypeAliases == <<"T">>

Range(f) == {f[i] : i \in DOMAIN f}

\* Property shapes the catalogs are built from: every schema kind occurs, as
\* do references to each category, to the structures themselves (cycles) and
\* to the names "X" and "Y" that no definition carries.
PropertyShapes ==
    { [type |-> Base("string"), optional |-> FALSE],
      [type |-> Base("string"), optional |-> TRUE],
      [type |-> Base("integer"), optional |-> TRUE],
      [type |-> Ref("A"), optional |-> FALSE],
      [type |-> Ref("B"), optional |-> FALSE],
      [type |-> Ref("E"), optional |-> TRUE],
      [type |-> Ref("T"), optional |-> FALSE],
      [type |-> Ref("X"), optional |-> FALSE],
      [type |-> Wrap("array", <<Ref("B")>>), optional |-> FALSE],
      [type |-> Wrap("or", <<Ref("E"), Ref("X")>>), optional |-> TRUE],
      [type |-> Wrap("map", <<Ref("Y"), Ref("X")>>), optional |-> FALSE],
      [type |-> Wrap("and", <<Ref("A"), Ref("T")>>), optional |-> FALSE],
      [type |-> Wrap("tuple", <<Base("string"), Ref("T")>>), optional |-> TRUE],
      [type |-> Wrap("array", <<Wrap("or", <<Ref("B"), Ref("Y")>>)>>), optional |-> FALSE],
      [type |-> Wrap("stringLiteral", <<>>), optional |-> FALSE],
      [type |-> Wrap("literal", <<>>), optional |-> FALSE] }

\* Wire names of the properties, by position in the structure.
PropName(i) ==
    CASE i = 1 -> "line"
      [] i = 2 -> "character"
      [] i = 3 -> "uri"
      [] OTHER -> "data"

\* Property: Name, Type, Optional.
MkProps(shapes) ==
    [i \in DOMAIN shapes |->
        [name |-> PropName(i), type |-> shapes[i].type, optional |-> shapes[i].optional]]

ShapeSeqs(n) == UNION {[1..k -> PropertyShapes] : k \in 0..n}

\* Model.Structures as a function from structure name to its Properties.
Catalogs ==
    { [s \in Range(StructureNames) |-> MkProps(IF s = "A" THEN a ELSE b)] :
        <<a, b>> \in {p \in ShapeSeqs(MaxProps) \X ShapeSeqs(MaxProps) :
                        Len(p[1]) + Len(p[2]) <= MaxProps} }

\* ---------------------------------------------------------------- state
VARIABLES
    catalog,    \* Model.Structures: structure name -> Properties
    found,      \* ReferenceSchema.Found of every reference node of the catalog
    nextId,     \* identity of the next AnyRef value allocated (&AnyRef{...})
    phase,      \* "idle", "resolving", "printing", "done", "failed", "overflow", "panic"
    calls,      \* top-level Structure calls made so far
    request,    \* name given to the current / last top-level Structure call
    stack,      \* nested Model.Structure calls: [s, todo]
    result,     \* name of the structure the last Structure call returned, or ""
    err,        \* error being returned by the current / last Structure call
    trace,      \* names handed to AnyRef during the current top-level call
    pstack,     \* nested pp.PrintStruct calls: [s, i, types]
    out,        \* lines written to pp.out
    doc,        \* JSON object handed to Schema.UnmarshalJSON
    decoded     \* its outcome: "", "ok", "unknown schema kind", "unmarshal schema type"

vars == <<catalog, found, nextId, phase, calls, request, stack, result, err, trace,
          pstack, out, doc, decoded>>

resolveVars == <<found, nextId, calls, request, stack, result, err, trace>>
printVars == <<pstack, out>>
decodeVars == <<doc, decoded>>

\* ------------------------------------------------------------- resolver
\* The reference nodes Model.ResolveRefs visits below schema node s, in the
\* order it visits them; a node is named by its path of child indexes.
RECURSIVE ResolveRefs(_, _)
RECURSIVE ResolveItems(_, _, _)
ResolveItems(s, path, k) ==
    IF k > Len(s.items) THEN <<>>
    ELSE ResolveRefs(s.items[k], Append(path, k)) \o ResolveItems(s, path, k + 1)

ResolveRefs(s, path) ==
    IF s.kind = "reference" THEN <<path>>
    ELSE IF s.kind = "array" THEN ResolveRefs(s.items[1], Append(path, 1))
    ELSE IF s.kind \in {"or", "and", "tuple"} THEN ResolveItems(s, path, 1)
    ELSE IF s.kind = "map"
         THEN ResolveRefs(s.items[1], Append(path, 1)) \o ResolveRefs(s.items[2], Append(path, 2))
    ELSE <<>>

\* The schema node at a path below node s.
RECURSIVE SchemaAt(_, _)
SchemaAt(s, path) ==
    IF path = <<>> THEN s ELSE SchemaAt(s.items[Head(path)], Tail(path))

\* The loop of Model.Structure over found.Properties: every reference node of
\* structure name, in resolution order, as [s, p, path].
RECURSIVE StructureTodo(_, _, _)
StructureTodo(cat, name, i) ==
    IF i > Len(cat[name]) THEN <<>>
    ELSE LET paths == ResolveRefs(cat[name][i].type, <<>>)
         IN  [k \in 1..Len(paths) |-> [s |-> name, p |-> i, path |-> paths[k]]]
             \o StructureTodo(cat, name, i + 1)

NodeAt(cat, n) == SchemaAt(cat[n.s][n.p].type, n.path)

RefNodes(cat) == UNION {Range(StructureTodo(cat, s, 1)) : s \in DOMAIN cat}

\* Which collection Model.AnyRef finds name in: structures are scanned first,
\* then enumerations, then type aliases.
AnyRefNoAliases(name) ==
    IF name \in Range(StructureNames) THEN "Structure"
    ELSE IF name \in Range(Enumerations) THEN "Enumeration"
    ELSE "none"

AnyRef(name) ==
    IF name \in Range(StructureNames) THEN "Structure"
    ELSE IF name \in Range(Enumerations) THEN "Enumeration"
    ELSE IF name \in Range(TypeAliases) THEN "TypeAlias"
    ELSE "none"

\* A nil *AnyRef.
Nil == [Name |-> "", cat |-> "", id |-> 0]

\* &AnyRef{Name: name, <cat>: ...}
NewAnyRefUnnamedAlias(name, cat, id) ==
    [Name |-> IF cat = "TypeAlias" THEN "" ELSE name, cat |-> cat, id |-> id]

NewAnyRef(name, cat, id) == [Name |-> name, cat |-> cat, id |-> id]

\* s.Reference.Found = found
AttachReset(f, n, h) == [m \in DOMAIN f |-> IF m = n THEN h ELSE Nil]

Attach(f, n, h) == [f EXCEPT ![n] = h]

NoErr == [kind |-> "", name |-> ""]
Frame(cat, name) == [s |-> name, todo |-> StructureTodo(cat, name, 1)]
Top(st) == st[Len(st)]
Pop(st) == SubSeq(st, 1, Len(st) - 1)
SetTop(st, f) == [st EXCEPT ![Len(st)] = f]

\* Names a caller may ask Model.Structure for; "Z" is no structure.
RequestNames == Range(StructureNames) \cup {"Z"}

\* No document: the decoder is not part of this run.
NoDoc == [kind |-> "", fields |-> {}, children |-> <<>>]

Init ==
    /\ catalog \in Catalogs
    /\ found = [n \in RefNodes(catalog) |-> Nil]
    /\ nextId = 1
    /\ phase = "idle"
    /\ calls = 0
    /\ request = ""
    /\ stack = <<>>
    /\ result = ""
    /\ err = NoErr
    /\ trace = <<>>
    /\ pstack = <<>>
    /\ out = <<>>
    /\ doc = NoDoc
    /\ decoded = ""

\* A caller invokes Model.Structure(name): the scan for the structure.
CallStructure(name) ==
    /\ phase = "idle"
    /\ calls < MaxCalls
    /\ calls' = calls + 1
    /\ request' = name
    /\ trace' = <<>>
    /\ result' = ""
    /\ IF name \in DOMAIN catalog
       THEN /\ stack' = <<Frame(catalog, name)>>
            /\ phase' = "resolving"
            /\ err' = NoErr
       ELSE /\ stack' = <<>>
            /\ phase' = "failed"
            /\ err' = [kind |-> "structure not found", name |-> name]
    /\ UNCHANGED <<catalog, found, nextId, printVars, decodeVars>>

\* Model.ResolveRefs reaches the next reference node and calls Model.AnyRef.
ResolveReference ==
    /\ phase = "resolving"
    /\ err = NoErr
    /\ Top(stack).todo # <<>>
    /\ LET n == Head(Top(stack).todo)
           name == NodeAt(catalog, n).name
           cat == AnyRef(name)
       IN  /\ trace' = Append(trace, name)
           /\ CASE cat = "Structure" ->
                     IF Len(stack) >= StackLimit
                     THEN /\ phase' = "overflow"
                          /\ UNCHANGED <<stack, found, nextId, err>>
                     ELSE /\ stack' = Append(stack, Frame(catalog, name))
                          /\ UNCHANGED <<phase, found, nextId, err>>
                [] cat \in {"Enumeration", "TypeAlias"} ->
                     /\ found' = Attach(found, n, NewAnyRef(name, cat, nextId))
                     /\ nextId' = nextId + 1
                     /\ stack' = SetTop(stack, [Top(stack) EXCEPT !.todo = Tail(@)])
                     /\ UNCHANGED <<phase, err>>
                [] OTHER ->
                     /\ err' = [kind |-> "ref not found", name |-> name]
                     /\ UNCHANGED <<phase, stack, found, nextId>>
    /\ UNCHANGED <<catalog, calls, request, result, printVars, decodeVars>>

\* Model.Structure has resolved every property and returns the structure: to
\* the outside caller, or to AnyRef, whose handle ResolveRefs then attaches.
StructureReturn ==
    /\ phase = "resolving"
    /\ err = NoErr
    /\ Top(stack).todo = <<>>
    /\ IF Len(stack) = 1
       THEN /\ result' = Top(stack).s
            /\ phase' = "idle"
            /\ stack' = <<>>
            /\ UNCHANGED <<found, nextId>>
       ELSE LET caller == stack[Len(stack) - 1]
                n == Head(caller.todo)
            IN  /\ found' = Attach(found, n, NewAnyRef(Top(stack).s, "Structure", nextId))
                /\ nextId' = nextId + 1
                /\ stack' = SetTop(Pop(stack), [caller EXCEPT !.todo = Tail(@)])
                /\ UNCHANGED <<phase, result>>
    /\ UNCHANGED <<catalog, calls, request, err, trace, printVars, decodeVars>>

\* "return err" / "return nil, err": one call level hands the error up.
ReturnErr ==
    /\ phase = "resolving"
    /\ err # NoErr
    /\ stack' = Pop(stack)
    /\ phase' = IF Len(stack) = 1 THEN "failed" ELSE "resolving"
    /\ UNCHANGED <<catalog, found, nextId, calls, request, result, err, trace, printVars, decodeVars>>

\* ------------------------------------------------------------- printer
\* strcase.ToGoPascal on the wire names in use (initialisms are upper-cased).
ToGoPascal(name) ==
    CASE name = "line" -> "Line"
      [] name = "character" -> "Character"
      [] name = "uri" -> "URI"
      [] OTHER -> "Data"

\* One entry of types: fmt.Sprintf("%s %s `json:\"%s,omitempty\"", key, typeName, prop.Name)
FieldLine(owner, prop, typeName) ==
    [line |-> "field", owner |-> owner, key |-> ToGoPascal(prop.name),
     typeName |-> typeName, tag |-> prop.name, omitempty |-> TRUE]

HeaderLine(owner) ==
    [line |-> "header", owner |-> owner, key |-> "", typeName |-> "", tag |-> "",
     omitempty |-> FALSE]

CloseLine(owner) ==
    [line |-> "close", owner |-> owner, key |-> "", typeName |-> "", tag |-> "",
     omitempty |-> FALSE]

\* The writes that end PrintStruct: "type %s struct {", every field, "}".
DeclarationClosedEarly(owner, types) ==
    <<HeaderLine(owner), CloseLine(owner)>> \o types

Declaration(owner, types) == <<HeaderLine(owner)>> \o types \o <<CloseLine(owner)>>

\* typeName of a property of kind base.
BaseTypeName(name) == IF name = "string" THEN "string" ELSE ""

PFrame(name) == [s |-> name, i |-> 1, types |-> <<>>]

\* run: pp := newPrinter(os.Stdout); pp.PrintStruct(diag) on a returned structure.
CallPrintStruct ==
    /\ phase = "idle"
    /\ result # ""
    /\ pstack' = <<PFrame(result)>>
    /\ out' = <<>>
    /\ phase' = "printing"
    /\ UNCHANGED <<catalog, resolveVars, decodeVars>>

\* One iteration of the loop over s.Properties, up to the recursive call.
PrintProperty ==
    /\ phase = "printing"
    /\ Top(pstack).i <= Len(catalog[Top(pstack).s])
    /\ LET f == Top(pstack)
           prop == catalog[f.s][f.i]
           add(typeName) ==
               /\ pstack' = SetTop(pstack, [f EXCEPT !.i = @ + 1,
                                  !.types = Append(@, FieldLine(f.s, prop, typeName))])
               /\ UNCHANGED phase
       IN  IF prop.type.kind = "reference"
           THEN LET ref == found[[s |-> f.s, p |-> f.i, path |-> <<>>]]
                IN  IF ref = Nil
                    THEN /\ phase' = "panic"
                         /\ UNCHANGED pstack
                    ELSE IF ref.cat = "Structure"
                    THEN IF Len(pstack) >= StackLimit
                         THEN /\ phase' = "overflow"
                              /\ UNCHANGED pstack
                         ELSE /\ pstack' = Append(pstack, PFrame(ref.Name))
                              /\ UNCHANGED phase
                    ELSE IF ref.cat \in {"Enumeration", "TypeAlias"}
                    THEN add(ref.Name)
                    ELSE /\ phase' = "panic"
                         /\ UNCHANGED pstack
           ELSE IF prop.type.kind = "base"
           THEN add(BaseTypeName(prop.type.name))
           ELSE add("")
    /\ UNCHANGED <<catalog, resolveVars, out, decodeVars>>

\* The end of PrintStruct: the declaration is written and the call returns;
\* a calling PrintStruct then records its pointer field.
PrintDeclaration ==
    /\ phase = "printing"
    /\ Top(pstack).i > Len(catalog[Top(pstack).s])
    /\ out' = out \o Declaration(Top(pstack).s, Top(pstack).types)
    /\ IF Len(pstack) = 1
       THEN /\ pstack' = <<>>
            /\ phase' = "done"
       ELSE LET f == pstack[Len(pstack) - 1]
                prop == catalog[f.s][f.i]
            IN  /\ pstack' = SetTop(Pop(pstack), [f EXCEPT !.i = @ + 1,
                                   !.types = Append(@, FieldLine(f.s, prop, "*" \o Top(pstack).s))])
                /\ UNCHANGED phase
    /\ UNCHANGED <<catalog, resolveVars, decodeVars>>

Next ==
    \/ \E name \in RequestNames : CallStructure(name)
    \/ ResolveReference
    \/ StructureReturn
    \/ ReturnErr
    \/ CallPrintStruct
    \/ PrintProperty
    \/ PrintDeclaration

Spec == Init /\ [][Next]_vars

\* ------------------------------------------------------------- decoder
\* A JSON object at a Schema position: the value of its "kind" member, the
\* names of its other members, and the objects at its *Schema members.
Kinds == {"array", "or", "and", "reference", "base", "map", "stringLiteral",
          "literal", "tuple"}

\* The json-tagged fields of the struct chosen for a kind, besides "kind".
ShapeFields(kind) ==
    CASE kind = "array" -> {"element"}
      [] kind \in {"or", "and", "tuple"} -> {"items"}
      [] kind \in {"reference", "base"} -> {"name"}
      [] kind = "map" -> {"key", "value"}
      [] OTHER -> {"value"}

\* Those of them that hold *Schema (or []*Schema) and so decode recursively.
SchemaFields(kind) ==
    CASE kind = "array" -> {"element"}
      [] kind \in {"or", "and", "tuple"} -> {"items"}
      [] kind = "map" -> {"key", "value"}
      [] OTHER -> {}

\* unmarshalStrict into the chosen struct: DisallowUnknownFields rejects a
\* member the struct does not declare; an absent member keeps its zero value.
UnmarshalStrict(kind, fields) == fields \subseteq ShapeFields(kind)

\* Schema.UnmarshalJSON: "ok" or the error it returns.
RECURSIVE UnmarshalJSON(_)
UnmarshalJSON(d) ==
    IF d.kind \notin Kinds THEN "unknown schema kind"
    ELSE IF ~UnmarshalStrict(d.kind, d.fields) THEN "unmarshal schema type"
    ELSE IF /\ d.fields \cap SchemaFields(d.kind) # {}
            /\ \E k \in DOMAIN d.children : UnmarshalJSON(d.children[k]) # "ok"
         THEN "unmarshal schema type"
    ELSE "ok"

MemberNames == {"name", "element", "items", "key", "value", "since"}

ChildDocs ==
    { [kind |-> "reference", fields |-> {"name"}, children |-> <<>>],
      [kind |-> "base", fields |-> {"name", "since"}, children |-> <<>>],
      [kind |-> "enum", fields |-> {"name"}, children |-> <<>>] }

Docs ==
    { [kind |-> k, fields |-> f, children |-> <<c>>] :
        k \in Kinds \cup {"", "enum"}, f \in SUBSET MemberNames, c \in ChildDocs }

DecodeInit ==
    /\ doc \in Docs
    /\ decoded = ""
    /\ phase = "idle"
    /\ catalog = [s \in {} |-> <<>>]
    /\ found = [n \in {} |-> Nil]
    /\ nextId = 1
    /\ calls = 0
    /\ request = ""
    /\ stack = <<>>
    /\ result = ""
    /\ err = NoErr
    /\ trace = <<>>
    /\ pstack = <<>>
    /\ out = <<>>

\* fetchMetaModel: the document is decoded before run goes any further.
Decode ==
    /\ decoded = ""
    /\ decoded' = UnmarshalJSON(doc)
    /\ phase' = IF decoded' = "ok" THEN "idle" ELSE "failed"
    /\ UNCHANGED <<catalog, resolveVars, printVars, doc>>

\* Model.ResolveRefs on the decoded node: a wrapper whose child pointer was
\* left nil is dereferenced (s.Reference on a nil *Schema).
ResolveDecoded ==
    /\ decoded = "ok"
    /\ phase = "idle"
    /\ phase' = IF \/ doc.kind = "array" /\ "element" \notin doc.fields
                   \/ doc.kind = "map" /\ {"key", "value"} \ doc.fields # {}
                THEN "panic"
                ELSE "done"
    /\ UNCHANGED <<catalog, resolveVars, printVars, decodeVars>>

DecodeNext == Decode \/ ResolveDecoded

DecodeSpec == DecodeInit /\ [][DecodeNext]_vars

\* ------------------------------------------------------------ properties
\* Names that some structure, enumeration or type alias of the catalog carries.
DefinedNames == Range(StructureNames) \cup Range(Enumerations) \cup Range(TypeAliases)

\* Names of the reference nodes anywhere below the properties of structure s.
RefNamesOf(cat, s) == {NodeAt(cat, n).name : n \in Range(StructureTodo(cat, s, 1))}

\* Structures reachable from a set of structures through reference nodes.
RECURSIVE ReachableStructures(_, _)
ReachableStructures(cat, set) ==
    LET more == set \cup {r \in DOMAIN cat : \E s \in set : r \in RefNamesOf(cat, s)}
    IN  IF more = set THEN set ELSE ReachableStructures(cat, more)

AllRefsPresent(cat, s) ==
    \A r \in ReachableStructures(cat, {s}) : RefNamesOf(cat, r) \subseteq DefinedNames

\* The property a written field line belongs to.
PropOf(ln) ==
    LET ps == catalog[ln.owner]
    IN  ps[CHOOSE i \in DOMAIN ps : ps[i].name = ln.tag]

FieldLines == {k \in DOMAIN out : out[k].line = "field"}

\* Index of the header of the declaration that line k belongs to.
HeaderOf(k) ==
    CHOOSE h \in 1..k : out[h].line = "header" /\ \A m \in (h + 1)..k : out[m].line # "header"

\* The last Len(properties)+2 lines of out are the declaration of s: its
\* header, one field per property in order with the wire name as tag, "}".
EndsWithDeclarationOf(s) ==
    LET n == Len(catalog[s])
        b == Len(out) - n - 2
    IN  /\ b >= 0
        /\ out[b + 1] = HeaderLine(s)
        /\ out[b + n + 2] = CloseLine(s)
        /\ \A i \in 1..n : /\ out[b + 1 + i].line = "field"
                           /\ out[b + 1 + i].owner = s
                           /\ out[b + 1 + i].tag = catalog[s][i].name

\* C1: when every reference reachable from the requested structure names a
\* definition of the catalog, Structure followed by PrintStruct succeeds (no
\* error, no panic, no stack exhaustion) and the declaration written for it
\* has one field per property, in property order, tagged with the wire name.
C1_ResolveThenEmitSucceeds ==
    (request \in DOMAIN catalog /\ AllRefsPresent(catalog, request)) =>
        /\ phase \notin {"failed", "panic", "overflow"}
        /\ phase = "done" => EndsWithDeclarationOf(request)

\* A type PrintStruct has no emission rule for.
Unsupported(type) ==
    \/ type.kind = "base" /\ type.name # "string"
    \/ type.kind \in {"array", "map", "or", "and", "tuple", "literal", "stringLiteral"}

\* C2: PrintStruct never writes a field for a property whose type has no
\* emission rule (it fails with an UnsupportedTypeError instead).
C2_UnsupportedTypeFails ==
    \A k \in FieldLines : ~Unsupported(PropOf(out[k]).type)

\* C3: a looked-up name that no definition carries is the last name looked
\* up (resolution stops there), and from then on, up to and after the return
\* to the caller of Structure, the error is "ref not found" with that name;
\* a "ref not found" error names nothing but such a reference.
C3_FirstUnresolvedReference ==
    /\ \A k \in DOMAIN trace :
          trace[k] \notin DefinedNames =>
              /\ k = Len(trace)
              /\ err = [kind |-> "ref not found", name |-> trace[k]]
              /\ phase \in {"resolving", "failed"}
    /\ err.kind = "ref not found" =>
          /\ trace # <<>>
          /\ err.name = trace[Len(trace)]
          /\ err.name \notin DefinedNames

\* C3 witness: a reference found missing inside a referenced structure, after
\* other references resolved, has been returned to the caller of Structure.
C3_Witness ==
    /\ phase = "failed"
    /\ err = [kind |-> "ref not found", name |-> "X"]
    /\ Len(trace) = 3

\* C4: a written field is marked omit-when-empty exactly when its property
\* is optional.
C4_OmitEmptyIffOptional ==
    \A k \in FieldLines : out[k].omitempty <=> PropOf(out[k]).optional

\* C5: a node is accepted by Schema.UnmarshalJSON only when its kind is one
\* of the nine kinds and its members are exactly those of that kind's shape.
C5_StrictDecode ==
    decoded = "ok" => (doc.kind \in Kinds /\ doc.fields = ShapeFields(doc.kind))

\* C6: the declaration of every structure is written at most once.
C6_DeclaredOnce ==
    \A s \in DOMAIN catalog :
        Cardinality({k \in DOMAIN out : out[k] = HeaderLine(s)}) <= 1

\* C7: the output is a sequence of contiguous declarations (header, fields of
\* that structure, closing brace), and a field whose property references a
\* structure B is typed *B and lies in a declaration whose header comes after
\* a complete declaration of B.
C7_ReferencedDeclaredFirst ==
    /\ \A k \in DOMAIN out :
          IF out[k].line = "header"
          THEN \E c \in (k + 1)..Len(out) :
                  /\ out[c] = CloseLine(out[k].owner)
                  /\ \A m \in (k + 1)..(c - 1) :
                        out[m].line = "field" /\ out[m].owner = out[k].owner
          ELSE /\ k > 1
               /\ out[k - 1].line \in {"header", "field"}
               /\ out[k - 1].owner = out[k].owner
    /\ \A k \in FieldLines :
          LET type == PropOf(out[k]).type
          IN  (type.kind = "reference" /\ type.name \in DOMAIN catalog) =>
                 /\ out[k].typeName = "*" \o type.name
                 /\ \E h \in 1..HeaderOf(k) : \E c \in h..(HeaderOf(k) - 1) :
                       /\ out[h] = HeaderLine(type.name)
                       /\ out[c] = CloseLine(type.name)
                       /\ \A m \in (h + 1)..(c - 1) : out[m].line = "field"

\* C7 witness: PrintStruct finished on a structure with a field typed *B.
C7_Witness ==
    /\ phase = "done"
    /\ \E k \in FieldLines : out[k].owner = "A" /\ out[k].typeName = "*B"

\* C8: Structure followed by PrintStruct never exhausts the call stack: it
\* runs to completion or to a returned error.
C8_Terminates == phase # "overflow"

RECURSIVE HandleReach(_)
HandleReach(set) ==
    LET more == set \cup
            {r \in DOMAIN catalog : \E s \in set : \E i \in DOMAIN catalog[s] :
                /\ catalog[s][i].type.kind = "reference"
                /\ found[[s |-> s, p |-> i, path |-> <<>>]].cat = "Structure"
                /\ found[[s |-> s, p |-> i, path |-> <<>>]].Name = r}
    IN  IF more = set THEN set ELSE HandleReach(more)

Designates(h) ==
    \/ h.cat = "Structure" /\ h.Name \in Range(StructureNames)
    \/ h.cat = "Enumeration" /\ h.Name \in Range(Enumerations)
    \/ h.cat = "TypeAlias" /\ h.Name \in Range(TypeAliases)

\* C10: after Structure returned successfully, every reference-kind property
\* type PrintStruct can visit from the returned structure carries a handle
\* with the node's name that designates a definition of that name, and
\* PrintStruct never panics.
C10_VisitedReferencesResolved ==
    /\ phase # "panic"
    /\ result # "" =>
          \A s \in HandleReach({result}) : \A i \in DOMAIN catalog[s] :
              catalog[s][i].type.kind = "reference" =>
                  LET h == found[[s |-> s, p |-> i, path |-> <<>>]]
                  IN  /\ h # Nil
                      /\ h.Name = catalog[s][i].type.name
                      /\ Designates(h)

\* C10 witness: PrintStruct has finished on a returned structure whose handle
\* leads to another structure with a resolved type-alias property.
C10_Witness ==
    /\ phase = "done"
    /\ result = "A"
    /\ "B" \in HandleReach({"A"})
    /\ \E i \in DOMAIN catalog["B"] : catalog["B"][i].type = Ref("T")

====
